---- MODULE Spec2Model ----
(***************************************************************************)
(* Model of the operator playground's two HTTP services:                   *)
(*   - the REST API (operator/api/main.go): /healthz, /jobs,               *)
(*     /jobs/details, /pod/logs on top of a Kubernetes clientset;          *)
(*   - the dashboard (operator/dashboard main): /frontend/jobs,            *)
(*     /frontend/job/details, /frontend/pod/logs calling the API over      *)
(*     HTTP, and the /pw/<uid>/... file server.                            *)
(* Every request is a slot r; a handler runs from "recv" to "done" and     *)
(* blocks at each outbound call (Kubernetes client call, stream read,      *)
(* http.Get), whose outcome is chosen by the environment.                  *)
(***************************************************************************)
EXTENDS Integers, Sequences, FiniteSets, TLC

\* ------------------------------------------------------------------ bounds
NumReq == 2      \* request slots handled concurrently (SpecConc)
MaxJobs == 3     \* longest Job list the cluster returns (Spec)
MaxTs == 2       \* creation timestamps are 1..MaxTs (Spec)
MaxSegs == 3     \* most '/'-separated segments after the /pw/ prefix (Spec)

\* ------------------------------------------------- net/http status codes
StatusOK == 200
StatusBadRequest == 400
StatusNotFound == 404
StatusMethodNotAllowed == 405
StatusInternalServerError == 500

Reqs == 1..NumReq

VARIABLES
    env,        \* env.api, env.dash: DEFAULT_NAMESPACE of each service's process
    backend,    \* the dashboard's backend base URL
    req,        \* req[r]: the HTTP request of slot r
    pc,         \* pc[r]: where r's handler stands
    local,      \* local[r]: the handler's local variables
    calls,      \* calls[r]: the outbound calls r's handler has issued, in order
    inflight,   \* inflight[r]: "none" | "running" | "cancelled" (the last call)
    ans,        \* ans[r]: the outcomes delivered to r's calls, in order
    resp,       \* resp[r]: what the handler wrote to its ResponseWriter
    nresp,      \* nresp[r]: how many responses the handler wrote
    ctxDone,    \* ctxDone[r]: r.Context() has been cancelled
    fsRoot,     \* fsRoot[r]: root of the http.FileServer the /pw/ handler built
    opened      \* opened[r]: the file the /pw/ file server opened

vars == <<env, backend, req, pc, local, calls, inflight, ans, resp, nresp,
          ctxDone, fsRoot, opened>>

\* ------------------------------------------------------------ data shapes
NoReq == [svc |-> "none", route |-> "", method |-> "", ns |-> "", name |-> "",
          pod |-> "", limit |-> "", cont |-> "", segs |-> <<>>, rawEncoded |-> FALSE]

NoLocal == [namespace |-> "", name |-> "", job |-> ""]

NoResp == [status |-> 0, kind |-> "none", tmpl |-> "", items |-> <<>>,
           token |-> "", data |-> ""]

NoPath == <<"<none>">>

\* One outbound call: a Kubernetes client call or the dashboard's http.Get.
Call(op, ns, name, selector, opts, ctx, url) ==
    [op |-> op, ns |-> ns, name |-> name, selector |-> selector,
     limit |-> opts.limit, cont |-> opts.cont, ctx |-> ctx, url |-> url]

\* The outcome of an outbound call.
ErrOut == [err |-> TRUE, status |-> 0, items |-> <<>>, token |-> "", data |-> "error"]
OkOut(items, token, data) ==
    [err |-> FALSE, status |-> 0, items |-> items, token |-> token, data |-> data]
HttpOut(status, data) ==
    [err |-> FALSE, status |-> status, items |-> <<>>, token |-> "", data |-> data]

\* A list of Kubernetes objects: item i keeps its position as identity.
Objects(tss) == [i \in 1..Len(tss) |-> [id |-> i, ts |-> tss[i]]]

SeqsUpTo(S, n) == UNION {[1..k -> S] : k \in 0..n}

\* ------------------------------------------------------- pure functions
\* A faulty getNamespace, without the fallback to DEFAULT_NAMESPACE.
getNamespaceNoFallback(namespace) == namespace

\* getNamespace: the query parameter, or DEFAULT_NAMESPACE when it is empty.
getNamespace(namespace) == IF namespace = "" THEN env.api ELSE namespace

\* The dashboard's own copy of getNamespace, reading the dashboard's environment.
dashGetNamespace(namespace) == IF namespace = "" THEN env.dash ELSE namespace

\* The comparison the wrong way round: strictly earlier.
Before(t, u) == t < u

\* metav1.Time.After: strictly later.
After(t, u) == t > u

\* The comparator handed to sort.Slice: item i goes before item j.
less(s, i, j) == After(s[i].ts, s[j].ts)

Swap(s, i, j) == [s EXCEPT ![i] = s[j], ![j] = s[i]]

\* sort.Slice on a slice of at most 12 elements is an insertion sort:
\*   for i := 1; i < n; i++ { for j := i; j > 0 && less(j, j-1); j-- { swap } }
RECURSIVE Sink(_, _)
Sink(s, j) ==
    IF j > 1 /\ less(s, j, j - 1) THEN Sink(Swap(s, j, j - 1), j - 1) ELSE s

RECURSIVE InsertionSort(_, _)
InsertionSort(s, i) ==
    IF i > Len(s) THEN s ELSE InsertionSort(Sink(s, i), i + 1)

SortSlice(s) == InsertionSort(s, 2)

\* Faulty list options, which pass the request's limit and continue on.
ListOptionsFromQuery(q) == [limit |-> q.limit, cont |-> q.cont]

\* opts := metav1.ListOptions{}: the request's limit and continue are not read.
ListOptions(q) == [limit |-> "", cont |-> ""]

\* http.Error: a plain-text body with the given status.
httpError(msg, code) ==
    [status |-> code, kind |-> "text", tmpl |-> "", items |-> <<>>,
     token |-> "", data |-> msg]

\* respondJSON: the indented JSON encoding of the envelope, status 200.  (Encode
\* fails only when the connection can no longer be written to, and then the
\* http.Error that follows reaches nobody.)
respondJSON(items, token, data) ==
    [status |-> StatusOK, kind |-> "json", tmpl |-> "", items |-> items,
     token |-> token, data |-> data]

\* ------------------------------------------------------- handler plumbing
\* The handler writes its response and returns.
Respond(r, response) ==
    /\ resp' = [resp EXCEPT ![r] = response]
    /\ nresp' = [nresp EXCEPT ![r] = @ + 1]
    /\ pc' = [pc EXCEPT ![r] = "done"]
    /\ inflight' = [inflight EXCEPT ![r] = "none"]

\* The handler issues an outbound call and blocks on it at `at`.
Issue(r, call, at) ==
    /\ calls' = [calls EXCEPT ![r] = Append(@, call)]
    /\ inflight' = [inflight EXCEPT ![r] =
                      IF call.ctx = "request" /\ ctxDone[r] THEN "cancelled" ELSE "running"]
    /\ pc' = [pc EXCEPT ![r] = at]
    /\ UNCHANGED <<resp, nresp>>

\* The outcome of the call in flight reaches the handler; a cancelled call fails.
Deliver(r, out) ==
    /\ inflight[r] = "cancelled" => out.err
    /\ ans' = [ans EXCEPT ![r] = Append(@, out)]

\* A request reaches its handler.
Arrive(r, Inputs) ==
    /\ pc[r] = "idle"
    /\ \E q \in Inputs : req' = [req EXCEPT ![r] = q]
    /\ pc' = [pc EXCEPT ![r] = "recv"]
    /\ UNCHANGED <<env, backend, local, calls, inflight, ans, resp, nresp,
                   ctxDone, fsRoot, opened>>

\* The client goes away while an outbound call is in flight: r.Context() is
\* cancelled, and with it every call that was given r.Context().
Cancel(r) ==
    /\ pc[r] \in {"call1", "call2", "read"}
    /\ ~ctxDone[r]
    /\ ctxDone' = [ctxDone EXCEPT ![r] = TRUE]
    /\ inflight' = [inflight EXCEPT ![r] =
                      IF calls[r][Len(calls[r])].ctx = "request" /\ @ = "running"
                      THEN "cancelled" ELSE @]
    /\ UNCHANGED <<env, backend, req, pc, local, calls, ans, resp, nresp,
                   fsRoot, opened>>

\* ------------------------------------------------------------ API service
IsApi(r, route) == pc[r] = "recv" /\ req[r].svc = "api" /\ req[r].route = route

\* /healthz: 200 "ok" whatever the method.
healthz(r) ==
    /\ IsApi(r, "/healthz")
    /\ Respond(r, [NoResp EXCEPT !.status = StatusOK, !.kind = "text", !.data = "ok"])
    /\ UNCHANGED <<env, backend, req, local, calls, ans, ctxDone, fsRoot, opened>>

\* listJobs up to its Jobs(namespace).List(ctx, opts) call.
listJobsCall(r, namespace) ==
    Call("Jobs.List", namespace, "", "", ListOptions(req[r]), "background", "")

\* /jobs: method check, namespace, then listJobs.
jobs(r) ==
    /\ IsApi(r, "/jobs")
    /\ IF req[r].method # "GET"
       THEN /\ Respond(r, httpError("method not allowed", StatusMethodNotAllowed))
            /\ UNCHANGED <<local, calls>>
       ELSE LET namespace == getNamespace(req[r].ns) IN
            /\ local' = [local EXCEPT ![r].namespace = namespace]
            /\ Issue(r, listJobsCall(r, namespace), "call1")
    /\ UNCHANGED <<env, backend, req, ans, ctxDone, fsRoot, opened>>

\* listJobs after Jobs.List returned: 500 on error, else sort and respond.
listJobsReturn(r, Lists, Tokens) ==
    /\ pc[r] = "call1" /\ req[r].route = "/jobs"
    /\ \E out \in {ErrOut} \cup {OkOut(Objects(l), t, "") : l \in Lists, t \in Tokens} :
         /\ Deliver(r, out)
         /\ IF out.err
            THEN Respond(r, httpError(out.data, StatusInternalServerError))
            ELSE Respond(r, respondJSON(SortSlice(out.items), out.token, ""))
    /\ UNCHANGED <<env, backend, req, local, calls, ctxDone, fsRoot, opened>>

\* jobDetails' two calls: Jobs(namespace).Get and Pods(namespace).List.
jobsGetCall(namespace, name) ==
    Call("Jobs.Get", namespace, name, "", [limit |-> "", cont |-> ""], "background", "")

podsListCall(namespace, name) ==
    Call("Pods.List", namespace, "", "job-name=" \o name, [limit |-> "", cont |-> ""],
         "background", "")

\* What the cluster holds under a name: the object that was asked for.
ObjectAt(kind, namespace, name) == kind \o ":" \o namespace \o "/" \o name

\* The call r's handler is blocked on.
LastCall(r) == calls[r][Len(calls[r])]

\* Faulty handlers, whose variables live in one package-level variable: every
\* handler reads what slot 1 wrote.
SharedLocals(r) == local[1]

\* The handler's own variables (function parameters and locals of its goroutine).
Locals(r) == local[r]

\* /jobs/details: method check, parameter check, then jobDetails up to Jobs.Get.
jobsDetails(r) ==
    /\ IsApi(r, "/jobs/details")
    /\ LET namespace == getNamespace(req[r].ns)
           name == req[r].name
       IN  IF req[r].method # "GET"
           THEN /\ Respond(r, httpError("method not allowed", StatusMethodNotAllowed))
                /\ UNCHANGED <<local, calls>>
           ELSE IF namespace = "" \/ name = ""
           THEN /\ Respond(r, httpError("namespace and name parameters required",
                                        StatusBadRequest))
                /\ UNCHANGED <<local, calls>>
           ELSE /\ local' = [local EXCEPT ![r].namespace = namespace, ![r].name = name]
                /\ Issue(r, jobsGetCall(namespace, name), "call1")
    /\ UNCHANGED <<env, backend, req, ans, ctxDone, fsRoot, opened>>

\* A faulty jobDetails, which goes on to Pods.List whatever Jobs.Get returned.
jobDetailsGetReturnUnchecked(r) ==
    /\ pc[r] = "call1" /\ req[r].route = "/jobs/details"
    /\ \E out \in {ErrOut,
                   OkOut(<<>>, "", ObjectAt("job", LastCall(r).ns, LastCall(r).name))} :
         /\ Deliver(r, out)
         /\ local' = [local EXCEPT ![r].job = out.data]
         /\ Issue(r, podsListCall(Locals(r).namespace, Locals(r).name), "call2")
    /\ UNCHANGED <<env, backend, req, ctxDone, fsRoot, opened>>

\* jobDetails after Jobs.Get returned: 500 on error, else Pods.List.
jobDetailsGetReturn(r) ==
    /\ pc[r] = "call1" /\ req[r].route = "/jobs/details"
    /\ \E out \in {ErrOut,
                   OkOut(<<>>, "", ObjectAt("job", LastCall(r).ns, LastCall(r).name))} :
         /\ Deliver(r, out)
         /\ IF out.err
            THEN /\ Respond(r, httpError(out.data, StatusInternalServerError))
                 /\ UNCHANGED <<local, calls>>
            ELSE /\ local' = [local EXCEPT ![r].job = out.data]
                 /\ Issue(r, podsListCall(Locals(r).namespace, Locals(r).name), "call2")
    /\ UNCHANGED <<env, backend, req, ctxDone, fsRoot, opened>>

PodLists == {<<>>, <<1>>}

\* jobDetails after Pods.List returned: 500 on error, else the {job, pods} envelope.
jobDetailsPodsReturn(r) ==
    /\ pc[r] = "call2" /\ req[r].route = "/jobs/details"
    /\ \E out \in {ErrOut} \cup {OkOut(Objects(l), "", "") : l \in PodLists} :
         /\ Deliver(r, out)
         /\ IF out.err
            THEN Respond(r, httpError(out.data, StatusInternalServerError))
            ELSE Respond(r, respondJSON(out.items, "", Locals(r).job))
    /\ UNCHANGED <<env, backend, req, local, calls, ctxDone, fsRoot, opened>>

\* podLogs' call: Pods(namespace).GetLogs(pod).Stream(r.Context()).
getLogsCall(namespace, pod) ==
    Call("Pods.GetLogs", namespace, pod, "", [limit |-> "", cont |-> ""], "request", "")

\* /pod/logs: method check, then podLogs up to the log stream call.
podLogs(r) ==
    /\ IsApi(r, "/pod/logs")
    /\ LET namespace == getNamespace(req[r].ns)
           pod == req[r].pod
       IN  IF req[r].method # "GET"
           THEN /\ Respond(r, httpError("method not allowed", StatusMethodNotAllowed))
                /\ UNCHANGED <<local, calls>>
           ELSE IF namespace = "" \/ pod = ""
           THEN /\ Respond(r, httpError("namespace and pod are required", StatusBadRequest))
                /\ UNCHANGED <<local, calls>>
           ELSE /\ local' = [local EXCEPT ![r].namespace = namespace, ![r].name = pod]
                /\ Issue(r, getLogsCall(namespace, pod), "call1")
    /\ UNCHANGED <<env, backend, req, ans, ctxDone, fsRoot, opened>>

\* podLogs after Stream returned: 500 on error, else io.ReadAll(stream).
podLogsStreamReturn(r) ==
    /\ pc[r] = "call1" /\ req[r].route = "/pod/logs"
    /\ \E out \in {ErrOut, OkOut(<<>>, "", "stream")} :
         /\ Deliver(r, out)
         /\ IF out.err
            THEN Respond(r, httpError(out.data, StatusInternalServerError))
            ELSE /\ pc' = [pc EXCEPT ![r] = "read"]
                 /\ UNCHANGED <<resp, nresp, inflight>>
    /\ UNCHANGED <<env, backend, req, local, calls, ctxDone, fsRoot, opened>>

\* podLogs after io.ReadAll returned: 500 on error, else {"logs": ...}.
podLogsReadReturn(r) ==
    /\ pc[r] = "read" /\ req[r].route = "/pod/logs"
    /\ \E out \in {ErrOut,
                   OkOut(<<>>, "", ObjectAt("logs", LastCall(r).ns, LastCall(r).name))} :
         /\ Deliver(r, out)
         /\ IF out.err
            THEN Respond(r, httpError(out.data, StatusInternalServerError))
            ELSE Respond(r, respondJSON(<<>>, "", out.data))
    /\ UNCHANGED <<env, backend, req, local, calls, ctxDone, fsRoot, opened>>

\* ------------------------------------------------------ dashboard service
IsDash(r, route) == pc[r] = "recv" /\ req[r].svc = "dash" /\ req[r].route = route

\* callBackend's http.Get(url): no request context is passed.
httpGetCall(url) ==
    Call("http.Get", "", "", "", [limit |-> "", cont |-> ""], "background", url)

\* /frontend/jobs up to callBackend.
frontendJobs(r) ==
    /\ IsDash(r, "/frontend/jobs")
    /\ LET namespace == dashGetNamespace(req[r].ns)
           url == backend \o "/jobs?namespace=" \o namespace
       IN  /\ local' = [local EXCEPT ![r].namespace = namespace]
           /\ Issue(r, httpGetCall(url), "call1")
    /\ UNCHANGED <<env, backend, req, ans, ctxDone, fsRoot, opened>>

\* /frontend/job/details up to callBackend.
frontendJobDetails(r) ==
    /\ IsDash(r, "/frontend/job/details")
    /\ LET namespace == dashGetNamespace(req[r].ns)
           name == req[r].name
           url == backend \o "/jobs/details?namespace=" \o namespace \o "&name=" \o name
       IN  /\ local' = [local EXCEPT ![r].namespace = namespace, ![r].name = name]
           /\ Issue(r, httpGetCall(url), "call1")
    /\ UNCHANGED <<env, backend, req, ans, ctxDone, fsRoot, opened>>

\* /frontend/pod/logs up to callBackend.
frontendPodLogs(r) ==
    /\ IsDash(r, "/frontend/pod/logs")
    /\ LET namespace == dashGetNamespace(req[r].ns)
           pod == req[r].pod
           url == backend \o "/pod/logs?pod=" \o pod \o "&namespace=" \o namespace
       IN  /\ local' = [local EXCEPT ![r].namespace = namespace, ![r].name = pod]
           /\ Issue(r, httpGetCall(url), "call1")
    /\ UNCHANGED <<env, backend, req, ans, ctxDone, fsRoot, opened>>

\* What http.Get can bring back: a network error, or the backend's response.  A
\* 200 carries the JSON of the URL asked for; an error status carries plain text.
BackendOutcomes(url) ==
    {ErrOut}
      \cup {[err |-> FALSE, status |-> StatusOK, items |-> Objects(l), token |-> "",
             data |-> "json:" \o url] : l \in PodLists}
      \cup {HttpOut(st, "text") : st \in {StatusBadRequest, StatusMethodNotAllowed,
                                           StatusInternalServerError}}

\* callBackend: only a transport error is an error; the status code is not read.
callBackendFailed(out) == out.err

\* json.Unmarshal into the view struct, its error dropped: a body that is not
\* JSON leaves the zero value.
Unmarshal(out) ==
    IF out.data = "text" THEN [items |-> <<>>, data |-> ""]
    ELSE [items |-> out.items, data |-> out.data]

\* templates.ExecuteTemplate: the named template rendered into the response,
\* status 200.  (The details view's formatted start, finish and duration are
\* part of `data`.)
ExecuteTemplate(name, items, data) ==
    [status |-> StatusOK, kind |-> "html", tmpl |-> name, items |-> items,
     token |-> "", data |-> data]

TemplateOf(route) ==
    IF route = "/frontend/jobs" THEN "job_list.html"
    ELSE IF route = "/frontend/job/details" THEN "job_details.html"
    ELSE "pod_logs.html"

\* A /frontend handler after callBackend returned.
frontendReturn(r) ==
    /\ pc[r] = "call1" /\ req[r].svc = "dash"
    /\ \E out \in BackendOutcomes(LastCall(r).url) :
         /\ Deliver(r, out)
         /\ IF callBackendFailed(out)
            THEN Respond(r, httpError(out.data, StatusInternalServerError))
            ELSE LET parsed == Unmarshal(out) IN
                 Respond(r, ExecuteTemplate(
                     TemplateOf(req[r].route), parsed.items,
                     IF req[r].route = "/frontend/pod/logs"
                     THEN Locals(r).namespace \o "/" \o Locals(r).name \o ":" \o parsed.data
                     ELSE parsed.data))
    /\ UNCHANGED <<env, backend, req, local, calls, ctxDone, fsRoot, opened>>

\* ------------------------------------------------------------ /pw/ handler
\* A path is the sequence of its '/'-separated segments: "/pw/" followed by
\* req.segs joined with '/'.  <<"u", "a", "">> is /pw/u/a/ and <<"">> is /pw/.

\* filepath.Clean / path.Clean of a rooted path: "" and "." are dropped, ".."
\* drops the segment before it and is itself dropped at the root.
RECURSIVE Clean(_, _)
Clean(acc, segs) ==
    IF segs = <<>> THEN acc
    ELSE LET h == Head(segs) IN
         Clean(IF h \in {"", "."} THEN acc
               ELSE IF h = ".." THEN SubSeq(acc, 1, Len(acc) - 1)
               ELSE Append(acc, h),
               Tail(segs))

ResultsDir == <<"playwright-results">>

\* filepath.Join("/playwright-results", uid)
filepathJoin(dir, elem) == Clean(<<>>, Append(dir, elem))

\* http.Dir(root).Open(name) under http.FileServer: root joined with the
\* cleaned, rooted request path.
DirOpen(root, name) == root \o Clean(<<>>, name)

\* The /pw/ handler: split off the uid, build a file server rooted at
\* /playwright-results/<uid>, strip /pw/<uid>/ and serve.
pw(r) ==
    /\ pc[r] = "recv" /\ req[r].svc = "dash" /\ req[r].route = "/pw/"
    /\ LET segs == req[r].segs
           \* strings.SplitN(rest, "/", 2) has two parts iff rest holds a '/'
           nparts == IF Len(segs) >= 2 THEN 2 ELSE 1
       IN  IF nparts < 2
           THEN /\ Respond(r, httpError("404 page not found", StatusNotFound))
                /\ UNCHANGED <<fsRoot, opened, ans>>
           ELSE LET uid == segs[1]
                    root == filepathJoin(ResultsDir, uid)
                IN  /\ fsRoot' = [fsRoot EXCEPT ![r] = root]
                    /\ IF req[r].rawEncoded
                       \* http.StripPrefix: the prefix is not a prefix of RawPath
                       THEN /\ Respond(r, httpError("404 page not found", StatusNotFound))
                            /\ UNCHANGED <<opened, ans>>
                       ELSE LET file == DirOpen(root, Tail(segs)) IN
                            /\ opened' = [opened EXCEPT ![r] = file]
                            \* the file is there, or it is not
                            /\ \E out \in {ErrOut, OkOut(<<>>, "", "file")} :
                                 /\ ans' = [ans EXCEPT ![r] = Append(@, out)]
                                 /\ Respond(r, IF out.err
                                               THEN httpError("404 page not found",
                                                              StatusNotFound)
                                               ELSE [NoResp EXCEPT !.status = StatusOK,
                                                                   !.kind = "file",
                                                                   !.items = file])
    /\ UNCHANGED <<env, backend, req, local, calls, ctxDone>>

\* ------------------------------------------------------------ the inputs
Methods == {"GET", "POST"}
Namespaces == {"", "ns1"}
Names == {"", "job1"}
Pods == {"", "pod1"}
Limits == {"", "50"}
Continues == {"", "tok"}
Tokens == {"", "next"}
Segments == {"", ".", "..", "u1", "f"}
DefaultNamespaces == {"", "dflt"}
BackendURLs == {"", "http://api:8080"}

ApiReq(route, method, ns, name, pod, limit, cont) ==
    [NoReq EXCEPT !.svc = "api", !.route = route, !.method = method, !.ns = ns,
                  !.name = name, !.pod = pod, !.limit = limit, !.cont = cont]

DashReq(route, ns, name, pod) ==
    [NoReq EXCEPT !.svc = "dash", !.route = route, !.method = "GET", !.ns = ns,
                  !.name = name, !.pod = pod]

\* rawEncoded: URL.RawPath is set and spells the /pw/<uid>/ prefix differently
\* from URL.Path (a percent-encoded character in it).
PwReq(segs, rawEncoded) ==
    [NoReq EXCEPT !.svc = "dash", !.route = "/pw/", !.method = "GET",
                  !.segs = segs, !.rawEncoded = rawEncoded]

ApiRequests(Ls, Cs) ==
    {ApiReq("/healthz", m, "", "", "", "", "") : m \in Methods}
      \cup {ApiReq("/jobs", m, n, "", "", l, c) :
              m \in Methods, n \in Namespaces, l \in Ls, c \in Cs}
      \cup {ApiReq("/jobs/details", m, n, j, "", "", "") :
              m \in Methods, n \in Namespaces, j \in Names}
      \cup {ApiReq("/pod/logs", m, n, "", p, "", "") :
              m \in Methods, n \in Namespaces, p \in Pods}

DashRequests ==
    {DashReq("/frontend/jobs", n, "", "") : n \in Namespaces}
      \cup {DashReq("/frontend/job/details", n, j, "") : n \in Namespaces, j \in Names}
      \cup {DashReq("/frontend/pod/logs", n, "", p) : n \in Namespaces, p \in Pods}

PwRequests(Paths) == {PwReq(p, e) : p \in Paths, e \in BOOLEAN}

\* Spec: one request, every input.
AllRequests ==
    ApiRequests(Limits, Continues) \cup DashRequests
      \cup PwRequests(SeqsUpTo(Segments, MaxSegs) \ {<<>>})

JobLists == SeqsUpTo(1..MaxTs, MaxJobs)

\* SpecConc: NumReq requests at once, over a small set of inputs.
ConcRequests ==
    {ApiReq("/healthz", "GET", "", "", "", "", "")}
      \cup {ApiReq("/jobs", "GET", n, "", "", "", "") : n \in Namespaces}
      \cup {ApiReq("/jobs", "GET", "ns1", "", "", "50", "tok")}
      \cup {ApiReq("/jobs/details", "GET", "ns1", j, "", "", "") : j \in {"job1", "job2"}}
      \cup {ApiReq("/pod/logs", "GET", "", "", "pod1", "", "")}
      \cup {DashReq("/frontend/jobs", "ns1", "", "")}
      \cup {DashReq("/frontend/job/details", "ns1", "job1", "")}
      \cup {DashReq("/frontend/pod/logs", "", "", "pod1")}
      \cup {PwReq(<<"u1", "f">>, FALSE)}

ConcJobLists == {<<1, 1>>}

\* ------------------------------------------------------- the state machine
InitSlots ==
    /\ req = [r \in Reqs |-> NoReq]
    /\ pc = [r \in Reqs |-> "idle"]
    /\ local = [r \in Reqs |-> NoLocal]
    /\ calls = [r \in Reqs |-> <<>>]
    /\ inflight = [r \in Reqs |-> "none"]
    /\ ans = [r \in Reqs |-> <<>>]
    /\ resp = [r \in Reqs |-> NoResp]
    /\ nresp = [r \in Reqs |-> 0]
    /\ ctxDone = [r \in Reqs |-> FALSE]
    /\ fsRoot = [r \in Reqs |-> NoPath]
    /\ opened = [r \in Reqs |-> NoPath]

\* main(): backend := os.Getenv("BACKEND_URL"), "http://localhost:8080" if empty.
BackendOf(url) == IF url = "" THEN "http://localhost:8080" ELSE url

Init ==
    /\ env \in [api : DefaultNamespaces, dash : DefaultNamespaces]
    /\ backend \in {BackendOf(u) : u \in BackendURLs}
    /\ InitSlots

InitConc ==
    /\ env = [api |-> "dflt", dash |-> "dflt"]
    /\ backend = BackendOf("")
    /\ InitSlots

\* The handlers of both services, from arrival to the last return.
Handle(r) ==
    \/ healthz(r)
    \/ jobs(r)
    \/ jobsDetails(r)
    \/ jobDetailsGetReturn(r)
    \/ jobDetailsPodsReturn(r)
    \/ podLogs(r)
    \/ podLogsStreamReturn(r)
    \/ podLogsReadReturn(r)
    \/ frontendJobs(r)
    \/ frontendJobDetails(r)
    \/ frontendPodLogs(r)
    \/ frontendReturn(r)
    \/ pw(r)
    \/ Cancel(r)

Next ==
    \E r \in {1} :
      \/ Arrive(r, AllRequests)
      \/ listJobsReturn(r, JobLists, Tokens)
      \/ Handle(r)

NextConc ==
    \E r \in Reqs :
      \/ Arrive(r, ConcRequests)
      \/ listJobsReturn(r, ConcJobLists, {"next"})
      \/ Handle(r)

Spec == Init /\ [][Next]_vars

SpecConc == InitConc /\ [][NextConc]_vars

\* ------------------------------------------------------------ the claims
Done(r) == pc[r] = "done"

IsRoute(r, svc, route) == req[r].svc = svc /\ req[r].route = route

\* The namespace a request of the API service is about.
EffectiveNamespace(q) == IF q.ns # "" THEN q.ns ELSE env.api

ErrorStatuses == {StatusBadRequest, StatusMethodNotAllowed, StatusInternalServerError}

\* How often x occurs in the sequence s.
Count(s, x) == Cardinality({i \in 1..Len(s) : s[i] = x})

IsPermutation(s, t) ==
    /\ Len(s) = Len(t)
    /\ \A i \in 1..Len(t) : Count(s, t[i]) = Count(t, t[i])

\* A GET /jobs that the cluster answered with a list.
JobsListed(r) ==
    /\ Done(r) /\ IsRoute(r, "api", "/jobs") /\ req[r].method = "GET"
    /\ ~ans[r][1].err

\* C1 as stated: the items of a successful GET /jobs are a permutation of the
\* Jobs the cluster returned, each created strictly later than the item after it.
C1_StrictlyDescending ==
    \A r \in Reqs : JobsListed(r) =>
        /\ IsPermutation(resp[r].items, ans[r][1].items)
        /\ \A i \in 1..(Len(resp[r].items) - 1) :
             resp[r].items[i].ts > resp[r].items[i + 1].ts

\* C1 amended: the items of a successful GET /jobs are a permutation of the
\* Jobs the cluster returned, and no item is created earlier than the item
\* after it (Jobs created at the same time stay next to each other).
C1_Descending ==
    \A r \in Reqs : JobsListed(r) =>
        /\ IsPermutation(resp[r].items, ans[r][1].items)
        /\ \A i \in 1..(Len(resp[r].items) - 1) :
             resp[r].items[i].ts >= resp[r].items[i + 1].ts

\* A list of three Jobs, two of them created at the same time, that the sort
\* had to reorder.
C1_Witness ==
    \E r \in Reqs :
        /\ JobsListed(r)
        /\ Len(ans[r][1].items) = 3
        /\ resp[r].items # ans[r][1].items
        /\ \E i, j \in 1..3 : i # j /\ ans[r][1].items[i].ts = ans[r][1].items[j].ts
        /\ \E i, j \in 1..3 : ans[r][1].items[i].ts # ans[r][1].items[j].ts

\* C2 as stated: whatever uid segment reaches the /pw/ handler, the file
\* server it builds is rooted at /playwright-results/<uid>, <uid> one non-empty
\* segment, and every file it opens lies under that root.
C2_OnlyUnderResultsUid ==
    \A r \in Reqs : (IsRoute(r, "dash", "/pw/") /\ fsRoot[r] # NoPath) =>
        /\ fsRoot[r] = <<"playwright-results", req[r].segs[1]>>
        /\ req[r].segs[1] # ""
        /\ opened[r] # NoPath =>
             /\ Len(opened[r]) >= 2
             /\ SubSeq(opened[r], 1, 2) = <<"playwright-results", req[r].segs[1]>>

\* C3 as stated: when the backend call of a /frontend route fails (network
\* error, or a 400/405/500 answer), the dashboard answers with an error status
\* and renders no template.
BackendFailed(r) ==
    /\ Len(ans[r]) >= 1
    /\ ans[r][1].err \/ ans[r][1].status \in ErrorStatuses

C3_FailuresSurfaced ==
    \A r \in Reqs :
        (Done(r) /\ req[r].svc = "dash" /\ req[r].route # "/pw/" /\ BackendFailed(r)) =>
            /\ resp[r].status \in ErrorStatuses
            /\ resp[r].kind # "html"

\* The parameter /jobs/details and /pod/logs require besides the namespace.
RequiredParam(q) == IF q.route = "/jobs/details" THEN q.name ELSE q.pod

\* C4: a GET on /jobs/details or /pod/logs is answered 400 exactly when the
\* effective namespace or the required parameter is empty, and then without
\* any cluster call; with the namespace omitted, DEFAULT_NAMESPACE set and the
\* parameter present, the request goes to the cluster in DEFAULT_NAMESPACE.
C4_MissingParams400 ==
    \A r \in Reqs :
        (req[r].svc = "api" /\ req[r].route \in {"/jobs/details", "/pod/logs"}
           /\ req[r].method = "GET") =>
            LET missing == EffectiveNamespace(req[r]) = "" \/ RequiredParam(req[r]) = ""
            IN  /\ Done(r) => (resp[r].status = StatusBadRequest <=> missing)
                /\ missing => calls[r] = <<>>
                /\ (~missing /\ pc[r] # "recv") =>
                     /\ calls[r] # <<>>
                     /\ \A i \in 1..Len(calls[r]) :
                          calls[r][i].ns = EffectiveNamespace(req[r])
                /\ (req[r].ns = "" /\ ~missing /\ pc[r] # "recv") =>
                     calls[r][1].ns = env.api

\* A /jobs/details without namespace parameter that went to the cluster in
\* DEFAULT_NAMESPACE, and was not rejected.
C4_Witness ==
    \E r \in Reqs :
        /\ Done(r) /\ IsRoute(r, "api", "/jobs/details") /\ req[r].method = "GET"
        /\ req[r].ns = "" /\ env.api # "" /\ req[r].name # ""
        /\ Len(calls[r]) = 2 /\ calls[r][1].ns = env.api
        /\ resp[r].status = StatusOK

\* C5 as stated: a non-GET request on /healthz, /jobs, /jobs/details or
\* /pod/logs is answered 405, before any parameter check and without any
\* cluster call.
C5_NonGet405 ==
    \A r \in Reqs : (Done(r) /\ req[r].svc = "api" /\ req[r].method # "GET") =>
        /\ resp[r].status = StatusMethodNotAllowed
        /\ calls[r] = <<>>

\* C6 as stated: a /pw/ path whose remainder is not <uid>/<path> with a
\* non-empty <uid> is answered 404 with no file server built and no file opened.
Malformed(segs) == Len(segs) < 2 \/ segs[1] = ""

C6_Malformed404 ==
    \A r \in Reqs : (Done(r) /\ IsRoute(r, "dash", "/pw/") /\ Malformed(req[r].segs)) =>
        /\ resp[r].status = StatusNotFound
        /\ fsRoot[r] = NoPath
        /\ opened[r] = NoPath

\* C7 as stated: once the context of an API request is cancelled, the cluster
\* call its handler is waiting for is cancelled too.
C7_CancelPropagates ==
    \A r \in Reqs :
        (req[r].svc = "api" /\ ctxDone[r] /\ pc[r] \in {"call1", "call2", "read"}) =>
            inflight[r] = "cancelled"

\* A request of the API service that passed the method and parameter checks.
Accepted(q) ==
    /\ q.svc = "api" /\ q.method = "GET"
    /\ q.route \in {"/jobs/details", "/pod/logs"} =>
         (EffectiveNamespace(q) # "" /\ RequiredParam(q) # "")

\* A failed call: 500, a plain-text body, and the failed call was the last one.
FailedAt(r, i) ==
    /\ Len(calls[r]) <= i
    /\ resp[r].status = StatusInternalServerError
    /\ resp[r].kind = "text"

\* C8: an accepted /jobs makes exactly one Jobs.List, /pod/logs exactly one log
\* stream call, /jobs/details one Jobs.Get and, only after that succeeded, one
\* Pods.List with selector job-name=<name> in the same namespace; a failed call
\* ends the request with 500, no further call and no JSON body.  A request
\* that is not accepted makes no call.
C8_CallsInOrder ==
    \A r \in Reqs : req[r].svc = "api" =>
        LET q == req[r]
            c == calls[r]
            a == ans[r]
        IN  /\ ~Accepted(q) => c = <<>>
            /\ Len(c) <= (IF q.route = "/jobs/details" THEN 2 ELSE 1)
            /\ (Accepted(q) /\ Done(r)) =>
                 /\ q.route = "/jobs" =>
                      /\ Len(c) = 1 /\ c[1].op = "Jobs.List"
                      /\ a[1].err => FailedAt(r, 1)
                 /\ q.route = "/pod/logs" =>
                      /\ Len(c) = 1 /\ c[1].op = "Pods.GetLogs"
                      /\ (\E i \in 1..Len(a) : a[i].err) => FailedAt(r, 1)
                 /\ q.route = "/jobs/details" =>
                      /\ c[1].op = "Jobs.Get" /\ c[1].name = q.name
                      /\ IF a[1].err
                         THEN FailedAt(r, 1)
                         ELSE /\ Len(c) = 2
                              /\ c[2].op = "Pods.List"
                              /\ c[2].selector = "job-name=" \o q.name
                              /\ c[2].ns = c[1].ns
                              /\ a[2].err => FailedAt(r, 2)
                 /\ (\A i \in 1..Len(a) : ~a[i].err) =>
                      resp[r].status = StatusOK /\ resp[r].kind \in {"json", "text"}
            \* while Jobs.Get has not succeeded, Pods.List has not been called
            /\ (q.route = "/jobs/details" /\ Len(c) = 2) => (Len(a) >= 1 /\ ~a[1].err)

\* A /jobs/details whose Jobs.Get succeeded and whose Pods.List failed.
C8_Witness ==
    \E r \in Reqs :
        /\ Done(r) /\ IsRoute(r, "api", "/jobs/details")
        /\ Len(calls[r]) = 2 /\ Len(ans[r]) = 2
        /\ ~ans[r][1].err /\ ans[r][2].err
        /\ resp[r].status = StatusInternalServerError

\* What a request handled alone gets: the handler run from start to end on
\* the request q and the outcomes a of its own calls.
SoloApi(q, a) ==
    IF q.route = "/healthz"
    THEN [NoResp EXCEPT !.status = StatusOK, !.kind = "text", !.data = "ok"]
    ELSE IF q.method # "GET"
    THEN httpError("method not allowed", StatusMethodNotAllowed)
    ELSE IF q.route = "/jobs"
    THEN IF a[1].err THEN httpError(a[1].data, StatusInternalServerError)
         ELSE respondJSON(SortSlice(a[1].items), a[1].token, "")
    ELSE IF EffectiveNamespace(q) = "" \/ RequiredParam(q) = ""
    THEN httpError(IF q.route = "/jobs/details"
                   THEN "namespace and name parameters required"
                   ELSE "namespace and pod are required", StatusBadRequest)
    ELSE IF a[1].err THEN httpError(a[1].data, StatusInternalServerError)
    ELSE IF a[2].err THEN httpError(a[2].data, StatusInternalServerError)
    ELSE IF q.route = "/jobs/details" THEN respondJSON(a[2].items, "", a[1].data)
    ELSE respondJSON(<<>>, "", a[2].data)

SoloDash(q, a) ==
    IF a[1].err THEN httpError(a[1].data, StatusInternalServerError)
    ELSE LET ns == IF q.ns # "" THEN q.ns ELSE env.dash
             items == IF a[1].data = "text" THEN <<>> ELSE a[1].items
             data == IF a[1].data = "text" THEN "" ELSE a[1].data
         IN  IF q.route = "/frontend/jobs"
             THEN ExecuteTemplate("job_list.html", items, data)
             ELSE IF q.route = "/frontend/job/details"
             THEN ExecuteTemplate("job_details.html", items, data)
             ELSE ExecuteTemplate("pod_logs.html", items,
                                  ns \o "/" \o q.pod \o ":" \o data)

SoloPw(q, a) ==
    IF Len(q.segs) < 2 \/ q.rawEncoded \/ a[1].err
    THEN httpError("404 page not found", StatusNotFound)
    ELSE [NoResp EXCEPT !.status = StatusOK, !.kind = "file",
                        !.items = Clean(<<>>, <<"playwright-results", q.segs[1]>>)
                                    \o Clean(<<>>, Tail(q.segs))]

\* The calls a request handled alone makes.
SoloCalls(q, a) ==
    LET ns == EffectiveNamespace(q)
        none == [limit |-> "", cont |-> ""]
        dns == IF q.ns # "" THEN q.ns ELSE env.dash
    IN  IF q.svc = "dash"
        THEN IF q.route = "/pw/" THEN <<>>
             ELSE <<Call("http.Get", "", "", "", none, "background",
                         IF q.route = "/frontend/jobs"
                         THEN backend \o "/jobs?namespace=" \o dns
                         ELSE IF q.route = "/frontend/job/details"
                         THEN backend \o "/jobs/details?namespace=" \o dns
                                      \o "&name=" \o q.name
                         ELSE backend \o "/pod/logs?pod=" \o q.pod
                                      \o "&namespace=" \o dns)>>
        ELSE IF q.route = "/healthz" \/ ~Accepted(q) THEN <<>>
        ELSE IF q.route = "/jobs"
        THEN <<Call("Jobs.List", ns, "", "", none, "background", "")>>
        ELSE IF q.route = "/pod/logs"
        THEN <<Call("Pods.GetLogs", ns, q.pod, "", none, "request", "")>>
        ELSE <<Call("Jobs.Get", ns, q.name, "", none, "background", "")>>
               \o (IF a[1].err THEN <<>>
                   ELSE <<Call("Pods.List", ns, "", "job-name=" \o q.name, none,
                               "background", "")>>)

\* C9: under every interleaving of the handlers' steps, a request gets no
\* response before its handler ends and exactly one when it ends, and its
\* calls and its response are those of the same request handled alone on the
\* same outcomes: nothing of another request shows in them.
C9_Independent ==
    \A r \in Reqs :
        /\ nresp[r] = (IF Done(r) THEN 1 ELSE 0)
        /\ (Done(r) /\ req[r].route # "/pw/") =>
             /\ calls[r] = SoloCalls(req[r], ans[r])
             /\ resp[r] = (IF req[r].svc = "api" THEN SoloApi(req[r], ans[r])
                           ELSE SoloDash(req[r], ans[r]))
        /\ (Done(r) /\ req[r].route = "/pw/") =>
             /\ calls[r] = <<>>
             /\ resp[r] = SoloPw(req[r], ans[r])

\* A /jobs/details answered with its own Job while the handler of another
\* /jobs/details, for another Job, is in the middle of its calls.
C9_Witness ==
    \E r1, r2 \in Reqs :
        /\ r1 # r2 /\ Done(r1) /\ pc[r2] = "call2"
        /\ IsRoute(r1, "api", "/jobs/details") /\ IsRoute(r2, "api", "/jobs/details")
        /\ req[r1].name # req[r2].name
        /\ resp[r1].status = StatusOK
        /\ resp[r1].data = ObjectAt("job", "ns1", req[r1].name)
        /\ local[r2].job = ObjectAt("job", "ns1", req[r2].name)

\* Two GET /jobs requests about the same namespace.
SameNamespaceJobs(r1, r2) ==
    /\ r1 # r2
    /\ IsRoute(r1, "api", "/jobs") /\ IsRoute(r2, "api", "/jobs")
    /\ req[r1].method = "GET" /\ req[r2].method = "GET"
    /\ EffectiveNamespace(req[r1]) = EffectiveNamespace(req[r2])

====
